---- MODULE Spec2Model ----
(***************************************************************************)
(* DDH-DVRF-then-Sign: the NIZK of discrete-log equality, the Lagrange     *)
(* combiner, the DVRF round, the DKG configuration and the FROST bridge.   *)
(*                                                                         *)
(* The secp256k1 group is a cyclic group of prime order r generated by G.  *)
(* A point is modelled by its discrete logarithm to the base G, so that    *)
(* G is 1, the identity is 0, point addition is addition modulo the order  *)
(* and scalar multiplication is multiplication modulo the order.  The      *)
(* order is scaled down to a small prime; the code uses of r only that it  *)
(* is prime and larger than every u64 index.                               *)
(***************************************************************************)
EXTENDS Integers, Sequences, FiniteSets

\* ------------------------------------------------------------------ bounds

\* Longest list handed to the combiner, and the largest u64 index in it.
MaxLen == 3

\* Largest message byte; a message is one byte.
MaxByte == 1

\* Largest value a FROST signing nonce is drawn with.
MaxNonce == 2

\* ------------------------------------------------------ scalars and points

\* The group order r (k256::Scalar is the field of integers modulo r).
R == 5

\* The number of 32-byte digests, scaled: like 2^256 it is the first power
\* of two above r, so that reduce_bytes is not the identity.
DigestSpace == 8

Scalars == 0 .. (R - 1)

Points == 0 .. (R - 1)

ScalarZERO == 0

ScalarONE == 1

GENERATOR == 1

IDENTITY == 0

SAdd(a, b) == (a + b) % R

SSub(a, b) == ((a - b) + R) % R

SMul(a, b) == (a * b) % R

\* Scalar::from(u64): every u64 is below r.
ScalarFromU64(j) == j % R

\* <Scalar as Reduce<U256>>::reduce_bytes
reduce_bytes(d) == d % R

\* Scalar::invert: CtOption, none for zero.
SInvert(x) ==
    IF x % R = 0
    THEN [some |-> FALSE, val |-> 0]
    ELSE [some |-> TRUE, val |-> CHOOSE y \in 1 .. (R - 1) : (x * y) % R = 1]

PAdd(p, q) == (p + q) % R

PMul(p, s) == (p * s) % R

\* ------------------------------------------------------------------ Keccak

\* One absorption step of the sponge: a fixed non-linear mixing of the state
\* with the next byte.
Absorb(h, b) == (((5 * h * h) + (3 * h)) + ((7 * b) + 1)) % DigestSpace

RECURSIVE KeccakFrom(_, _, _)
KeccakFrom(h, data, k) ==
    IF k > Len(data) THEN h ELSE KeccakFrom(Absorb(h, data[k]), data, k + 1)

keccak256(data) == KeccakFrom(0, data, 1)

hash_to_scalar_keccak(data) == reduce_bytes(keccak256(data))

hash_to_curve_point_keccak(data) == PMul(GENERATOR, hash_to_scalar_keccak(data))

\* SEC1 compressed encoding: a tag byte (0 for the identity, 2 or 3 for the
\* parity of y) and the x coordinate.  P and -P share x and differ in the tag.
point_bytes_compressed(p) ==
    IF p = IDENTITY
    THEN <<0, 0>>
    ELSE IF p <= R - p THEN <<2, p>> ELSE <<3, R - p>>

challenge_keccak(g, ph, vk, v, com1, com2) ==
    reduce_bytes(keccak256(
        point_bytes_compressed(g) \o point_bytes_compressed(ph)
        \o point_bytes_compressed(vk) \o point_bytes_compressed(v)
        \o point_bytes_compressed(com1) \o point_bytes_compressed(com2)))

\* -------------------------------------------------------- Lagrange combiner

\* The inner loop of lagrange_combine_points: num and den of lambda_i.
RECURSIVE LambdaLoop(_, _, _, _)
LambdaLoop(i, ids, k, acc) ==
    IF k > Len(ids)
    THEN acc
    ELSE LET j == ids[k]
         IN  LambdaLoop(i, ids, k + 1,
                 IF i # j
                 THEN [num |-> SMul(acc.num, ScalarFromU64(j)),
                       den |-> SMul(acc.den,
                                    SSub(ScalarFromU64(j), ScalarFromU64(i)))]
                 ELSE acc)

\* The outer loop: result += p_i * lambda_i; den.invert().unwrap() panics
\* when den is zero.
RECURSIVE CombineLoop(_, _, _, _)
CombineLoop(points, ids, k, result) ==
    IF k > Len(points)
    THEN [panic |-> FALSE, val |-> result]
    ELSE LET nd  == LambdaLoop(points[k][1], ids, 1,
                               [num |-> ScalarONE, den |-> ScalarONE])
             inv == SInvert(nd.den)
         IN  IF ~inv.some
             THEN [panic |-> TRUE, val |-> IDENTITY]
             ELSE CombineLoop(points, ids, k + 1,
                      PAdd(result, PMul(points[k][2], SMul(nd.num, inv.val))))

\* The accumulator starts at G instead of the identity.
lagrange_combine_points_from_G(points) ==
    CombineLoop(points, [k \in 1 .. Len(points) |-> points[k][1]], 1, GENERATOR)

\* The list of ids misses the first entry's.
lagrange_combine_points_ids_skip_first(points) ==
    CombineLoop(points, [k \in 1 .. Len(points) - 1 |-> points[k + 1][1]], 1,
                IDENTITY)

RECURSIVE SumPoints(_, _, _)
SumPoints(points, k, result) ==
    IF k > Len(points) THEN result
    ELSE SumPoints(points, k + 1, PAdd(result, points[k][2]))

\* The points are added without their Lagrange coefficients.
lagrange_combine_points_unweighted(points) ==
    [panic |-> FALSE, val |-> SumPoints(points, 1, IDENTITY)]

lagrange_combine_points(points) ==
    CombineLoop(points, [k \in 1 .. Len(points) |-> points[k][1]], 1, IDENTITY)

\* ------------------------------------------------------------------- NIZK

\* The partial evaluation is taken of the nonce instead of the share.
prove_eq_nonce_for_share(msg, vk_i, sk_i, r) ==
    LET g    == GENERATOR
        ph   == hash_to_curve_point_keccak(msg)
        v_i  == PMul(ph, r)
        com1 == PMul(g, r)
        com2 == PMul(ph, r)
        ch   == challenge_keccak(g, ph, vk_i, v_i, com1, com2)
        rs   == SAdd(SMul(sk_i, ch), r)
    IN  [v |-> v_i, proof |-> [ch |-> ch, rs |-> rs]]

\* prove_eq, with the nonce r drawn from the RNG as a parameter.
prove_eq(msg, vk_i, sk_i, r) ==
    LET g    == GENERATOR
        ph   == hash_to_curve_point_keccak(msg)
        v_i  == PMul(ph, sk_i)
        com1 == PMul(g, r)
        com2 == PMul(ph, r)
        ch   == challenge_keccak(g, ph, vk_i, v_i, com1, com2)
        rs   == SAdd(SMul(sk_i, ch), r)
    IN  [v |-> v_i, proof |-> [ch |-> ch, rs |-> rs]]

\* The challenge is added instead of subtracted.
verify_eq_plus_ch(msg, vk_i, v_i, pi) ==
    LET g        == GENERATOR
        ph       == hash_to_curve_point_keccak(msg)
        com1_p   == PAdd(PMul(g, pi.rs), PMul(vk_i, pi.ch))
        com2_p   == PAdd(PMul(ph, pi.rs), PMul(v_i, pi.ch))
        ch2      == challenge_keccak(g, ph, vk_i, v_i, com1_p, com2_p)
    IN  ch2 = pi.ch

verify_eq(msg, vk_i, v_i, pi) ==
    LET g        == GENERATOR
        ph       == hash_to_curve_point_keccak(msg)
        minus_ch == SSub(ScalarZERO, pi.ch)
        com1_p   == PAdd(PMul(g, pi.rs), PMul(vk_i, minus_ch))
        com2_p   == PAdd(PMul(ph, pi.rs), PMul(v_i, minus_ch))
        ch2      == challenge_keccak(g, ph, vk_i, v_i, com1_p, com2_p)
    IN  ch2 = pi.ch

\* ------------------------------------------------------------------ inputs

Messages == [1 .. 1 -> 0 .. MaxByte]

\* The u64 values, scaled: all of them are below r.
U64Range == MaxLen + 1

Indices == 0 .. (U64Range - 1)

SeqsUpTo(S, n) == UNION {[1 .. k -> S] : k \in 0 .. n}

IsInjective(s) == \A a, b \in DOMAIN s : s[a] = s[b] => a = b

\* f(x) for the polynomial with coefficients f[1] + f[2] x + f[3] x^2 + ...
RECURSIVE Horner(_, _, _)
Horner(f, x, k) ==
    IF k > Len(f) THEN 0 ELSE SAdd(f[k], SMul(x, Horner(f, x, k + 1)))

PolyEval(f, x) == Horner(f, x % R, 1)

\* ------------------------------------------------------------------- state

VARIABLES
    lgState,    \* combiner harness: "idle" or "done"
    lgPoly,     \* the polynomial the points were made from (<<>>: none)
    lgPoints,   \* the list handed to lagrange_combine_points
    lgRes,      \* what it returned
    nzState,    \* NIZK harness: "idle" or "done"
    nzIn,       \* [msg, sk, vk, r]
    nzOut,      \* [v, proof] returned by prove_eq
    nzOk,       \* verify_eq's answer
    cfgIn,      \* <<max_signers, min_signers>> given to DkgConfig::new
    cfgRes,     \* its Result: kind "none" (not called), "ok" or "err"
    dkgOut,     \* DkgOutput: key_packages, public_key_package
    dvPc,       \* run_ddh_dvrf_once: "idle", "loop", "done" or "panic"
    dvArgs,     \* its arguments [msg, signers]
    dvK,        \* signers handled so far by its loop
    good_points,                \* Vec<(u64, ProjectivePoint)>
    exported_points_for_debug,  \* Vec<(Identifier, ProjectivePoint)>
    dvV,        \* the combined point it returns
    dvErr,      \* the panic message, "" if none
    dvPrev,     \* what an earlier call with the same arguments returned
    frPc,       \* FROST: "idle", "signed" (frost_sign returned), "verified"
    frArgs,     \* frost_sign's arguments [msg, signer_ids]
    frRes,      \* what frost_sign returned
    frVerMsg,   \* the message given to frost_verify
    frOk        \* what frost_verify returned

vars == <<lgState, lgPoly, lgPoints, lgRes, nzState, nzIn, nzOut, nzOk,
          cfgIn, cfgRes, dkgOut, dvPc, dvArgs, dvK, good_points,
          exported_points_for_debug, dvV, dvErr, dvPrev,
          frPc, frArgs, frRes, frVerMsg, frOk>>

frVars == <<frPc, frArgs, frRes, frVerMsg, frOk>>

cfgVars == <<cfgIn, cfgRes>>

dvVars == <<dvPc, dvArgs, dvK, good_points, exported_points_for_debug, dvV,
            dvErr, dvPrev>>

plVars == <<cfgIn, cfgRes, dkgOut, dvPc, dvArgs, dvK, good_points,
            exported_points_for_debug, dvV, dvErr, dvPrev>>

lgVars == <<lgState, lgPoly, lgPoints, lgRes>>

nzVars == <<nzState, nzIn, nzOut, nzOk>>

NoResult == [panic |-> FALSE, val |-> IDENTITY]

NoConfig == [kind |-> "none", max_signers |-> 0, min_signers |-> 0]

NoDkg == [ready |-> FALSE, poly |-> <<>>, key_packages |-> <<>>,
          public_key_package |-> [verifying_shares |-> <<>>,
                                  verifying_key |-> IDENTITY]]

NoPrev == [set |-> FALSE, V |-> IDENTITY, points |-> <<>>]

NoSignature == [kind |-> "none", sig |-> [R |-> IDENTITY, z |-> 0]]

Init ==
    /\ lgState = "idle"
    /\ lgPoly = <<>>
    /\ lgPoints = <<>>
    /\ lgRes = NoResult
    /\ nzState = "idle"
    /\ nzIn = [msg |-> <<0>>, sk |-> 0, vk |-> 0, r |-> 0]
    /\ nzOut = [v |-> IDENTITY, proof |-> [ch |-> 0, rs |-> 0]]
    /\ nzOk = FALSE
    /\ cfgIn = <<0, 0>>
    /\ cfgRes = NoConfig
    /\ dkgOut = NoDkg
    /\ dvPc = "idle"
    /\ dvArgs = [msg |-> <<0>>, signers |-> <<>>]
    /\ dvK = 0
    /\ good_points = <<>>
    /\ exported_points_for_debug = <<>>
    /\ dvV = IDENTITY
    /\ dvErr = ""
    /\ dvPrev = NoPrev
    /\ frPc = "idle"
    /\ frArgs = [msg |-> <<0>>, signer_ids |-> <<>>]
    /\ frRes = NoSignature
    /\ frVerMsg = <<0>>
    /\ frOk = FALSE

\* ------------------------------------------------- combiner specification

\* test_lagrange_combine_points, for any polynomial and any list of distinct
\* non-zero indices: the points are G * f(i).
CombineShares(f, idxs) ==
    /\ lgState = "idle"
    /\ lgState' = "done"
    /\ lgPoly' = f
    /\ lgPoints' = [k \in 1 .. Len(idxs) |->
                        <<idxs[k], PMul(GENERATOR, PolyEval(f, idxs[k]))>>]
    /\ lgRes' = lagrange_combine_points(lgPoints')
    /\ UNCHANGED <<nzVars, plVars, frVars>>

\* lagrange_combine_points on any list of (index, point) entries.
CombineAny(points) ==
    /\ lgState = "idle"
    /\ lgState' = "done"
    /\ lgPoly' = <<>>
    /\ lgPoints' = points
    /\ lgRes' = lagrange_combine_points(points)
    /\ UNCHANGED <<nzVars, plVars, frVars>>

NextCombine ==
    \/ /\ lgState = "idle"
       /\ \E f \in SeqsUpTo(Scalars, MaxLen) \ {<<>>} :
          \E idxs \in SeqsUpTo(Indices \ {0}, MaxLen) :
              IsInjective(idxs) /\ CombineShares(f, idxs)
    \/ /\ lgState = "idle"
       /\ \E points \in SeqsUpTo(Indices \X Points, MaxLen) : CombineAny(points)

SpecCombine == Init /\ [][NextCombine]_vars

\* ----------------------------------------------------- NIZK specification

\* test_prove_and_verify_EQ, for any key pair: prove, then verify.  The test
\* takes vk_i = G * sk_i; prove_eq itself takes any point.
ProveAndVerify(msg, vk_i, sk_i, r) ==
    LET out  == prove_eq(msg, vk_i, sk_i, r)
    IN  /\ nzState = "idle"
        /\ nzState' = "done"
        /\ nzIn' = [msg |-> msg, sk |-> sk_i, vk |-> vk_i, r |-> r]
        /\ nzOut' = out
        /\ nzOk' = verify_eq(msg, vk_i, out.v, out.proof)
        /\ UNCHANGED <<lgVars, plVars, frVars>>

NextNizk ==
    /\ nzState = "idle"
    /\ \E msg \in Messages : \E vk_i \in Points :
       \E sk_i \in Scalars : \E r \in Scalars :
           ProveAndVerify(msg, vk_i, sk_i, r)

SpecNizk == Init /\ [][NextNizk]_vars

\* ------------------------------------------- DKG, then the DVRF round

\* The largest DKG the model runs: its identifiers 1..n are below the u64
\* range and leave the identifier r - 1 to no participant.  U16Values are
\* the u16 values tried as parameters.
MaxSigners == R - 2

U16Values == 0 .. (MaxSigners + 1)

\* frost::Identifier: a non-zero scalar.
Identifiers == 1 .. (R - 1)

\* min_signers = max_signers is refused too.
DkgConfigNew_min_below_max(max_signers, min_signers) ==
    IF max_signers < 2 THEN [kind |-> "err", max_signers |-> 0, min_signers |-> 0]
    ELSE IF min_signers < 2
    THEN [kind |-> "err", max_signers |-> 0, min_signers |-> 0]
    ELSE IF min_signers >= max_signers
    THEN [kind |-> "err", max_signers |-> 0, min_signers |-> 0]
    ELSE [kind |-> "ok", max_signers |-> max_signers,
          min_signers |-> min_signers]

\* DkgConfig::new
DkgConfigNew(max_signers, min_signers) ==
    IF max_signers < 2 THEN [kind |-> "err", max_signers |-> 0, min_signers |-> 0]
    ELSE IF min_signers < 2
    THEN [kind |-> "err", max_signers |-> 0, min_signers |-> 0]
    ELSE IF min_signers > max_signers
    THEN [kind |-> "err", max_signers |-> 0, min_signers |-> 0]
    ELSE [kind |-> "ok", max_signers |-> max_signers,
          min_signers |-> min_signers]

NewConfig(max_signers, min_signers) ==
    /\ cfgRes.kind = "none"
    /\ cfgIn' = <<max_signers, min_signers>>
    /\ cfgRes' = DkgConfigNew(max_signers, min_signers)
    /\ UNCHANGED <<lgVars, nzVars, dkgOut, dvVars, frVars>>

\* run_dealerless_dkg: the three rounds leave participant i = 1..n with the
\* share f(i) of the sum f of the participants' polynomials, of degree below
\* t; the verifying shares are G * f(i) and the group key is G * f(0).  A
\* KeyPackage holds its share serialized (32 bytes, big-endian).
run_dealerless_dkg(cfg, f) ==
    LET n == cfg.max_signers
    IN  [ready |-> TRUE,
         poly |-> f,
         key_packages |->
             [i \in 1 .. n |-> [identifier |-> i,
                                signing_share |-> PolyEval(f, i),
                                verifying_key |-> PMul(GENERATOR, PolyEval(f, 0)),
                                min_signers |-> cfg.min_signers]],
         public_key_package |->
             [verifying_shares |->
                  [i \in 1 .. n |-> PMul(GENERATOR, PolyEval(f, i))],
              verifying_key |-> PMul(GENERATOR, PolyEval(f, 0))]]

RunDkg(f) ==
    /\ cfgRes.kind = "ok"
    /\ cfgRes.max_signers <= MaxSigners
    /\ ~dkgOut.ready
    /\ Len(f) = cfgRes.min_signers
    /\ dkgOut' = run_dealerless_dkg(cfgRes, f)
    /\ UNCHANGED <<lgVars, nzVars, cfgVars, dvVars, frVars>>

scalar_from_keypackage(kk) == reduce_bytes(kk.signing_share)

\* The share is looked up under the next identifier.
vk_share_from_public_pkg_next_id(pkpkg, id) ==
    IF id + 1 \in DOMAIN pkpkg.verifying_shares
    THEN [some |-> TRUE, val |-> pkpkg.verifying_shares[id + 1]]
    ELSE [some |-> FALSE, val |-> IDENTITY]

\* Option: the verifying share of id, if the package has one.
vk_share_from_public_pkg(pkpkg, id) ==
    IF id \in DOMAIN pkpkg.verifying_shares
    THEN [some |-> TRUE, val |-> pkpkg.verifying_shares[id]]
    ELSE [some |-> FALSE, val |-> IDENTITY]

\* Eight bytes above the low ones are taken.
id_as_u64_high_bytes(id) == (id \div U64Range) % U64Range

\* The low 8 bytes of the identifier's 32-byte big-endian serialization.
id_as_u64(id) == id % U64Range

\* run_ddh_dvrf_once is entered: the two vectors are empty.
DvrfStart(msg, signers) ==
    /\ dkgOut.ready
    /\ dvPc = "idle"
    /\ dvPc' = "loop"
    /\ dvArgs' = [msg |-> msg, signers |-> signers]
    /\ dvK' = 0
    /\ good_points' = <<>>
    /\ exported_points_for_debug' = <<>>
    /\ dvV' = IDENTITY
    /\ dvErr' = ""
    /\ UNCHANGED <<lgVars, nzVars, cfgVars, dkgOut, dvPrev, frVars>>

\* One round of its loop, for the next signer, with the nonce r that
\* prove_eq draws.
DvrfSigner(r) ==
    /\ dvPc = "loop"
    /\ dvK < Len(dvArgs.signers)
    /\ LET id == dvArgs.signers[dvK + 1]
       IN  IF id \notin DOMAIN dkgOut.key_packages
           THEN /\ dvPc' = "panic"
                /\ dvErr' = "id has KeyPackage"
                /\ UNCHANGED <<dvK, good_points, exported_points_for_debug>>
           ELSE LET sk_i == scalar_from_keypackage(dkgOut.key_packages[id])
                    vk   == vk_share_from_public_pkg(dkgOut.public_key_package, id)
                IN  IF ~vk.some
                    THEN /\ dvPc' = "panic"
                         /\ dvErr' = "verifying key share for id"
                         /\ UNCHANGED <<dvK, good_points,
                                        exported_points_for_debug>>
                    ELSE \E out \in {prove_eq(dvArgs.msg, vk.val, sk_i, r)} :
                         \E ok \in {verify_eq(dvArgs.msg, vk.val, out.v, out.proof)} :
                             IF ~ok
                             THEN /\ dvPc' = "panic"
                                  /\ dvErr' = "prove_eq / verify_eq failed"
                                  /\ UNCHANGED <<dvK, good_points,
                                                 exported_points_for_debug>>
                             ELSE /\ dvPc' = "loop"
                                  /\ dvErr' = ""
                                  /\ dvK' = dvK + 1
                                  /\ good_points' =
                                         Append(good_points, <<id_as_u64(id), out.v>>)
                                  /\ exported_points_for_debug' =
                                         Append(exported_points_for_debug,
                                                <<id, out.v>>)
    /\ UNCHANGED <<lgVars, nzVars, cfgVars, dkgOut, dvArgs, dvV, dvPrev, frVars>>

\* After the loop: the Lagrange combination, and the return.
DvrfCombine ==
    /\ dvPc = "loop"
    /\ dvK = Len(dvArgs.signers)
    /\ LET res == lagrange_combine_points(good_points)
       IN  IF res.panic
           THEN dvPc' = "panic" /\ dvErr' = "unwrap on None" /\ dvV' = IDENTITY
           ELSE dvPc' = "done" /\ dvErr' = "" /\ dvV' = res.val
    /\ UNCHANGED <<lgVars, nzVars, cfgVars, dkgOut, dvArgs, dvK, good_points,
                   exported_points_for_debug, dvPrev, frVars>>

\* The caller keeps what the call returned and calls again with the same
\* message, signers and key material.
DvrfAgain ==
    /\ dvPc = "done"
    /\ ~dvPrev.set
    /\ dvPrev' = [set |-> TRUE, V |-> dvV, points |-> exported_points_for_debug]
    /\ dvPc' = "loop"
    /\ dvK' = 0
    /\ good_points' = <<>>
    /\ exported_points_for_debug' = <<>>
    /\ dvV' = IDENTITY
    /\ dvErr' = ""
    /\ UNCHANGED <<lgVars, nzVars, cfgVars, dkgOut, dvArgs, frVars>>

Next ==
    \/ /\ cfgRes.kind = "none"
       /\ \E max_signers \in U16Values : \E min_signers \in U16Values :
              NewConfig(max_signers, min_signers)
    \/ /\ cfgRes.kind = "ok" /\ ~dkgOut.ready
       /\ \E f \in SeqsUpTo(Scalars, MaxSigners) : RunDkg(f)
    \/ /\ dkgOut.ready /\ dvPc = "idle"
       /\ \E msg \in Messages : \E signers \in SeqsUpTo(Identifiers, MaxSigners) :
              DvrfStart(msg, signers)
    \/ \E r \in Scalars : DvrfSigner(r)
    \/ DvrfCombine
    \/ DvrfAgain

Spec == Init /\ [][Next]_vars

\* ------------------------------------------------------------ FROST bridge

\* The crate frost_secp256k1_evm is not part of the repository: its round 1,
\* signing package, round 2, aggregation and verification are written here
\* from the FROST protocol the crate implements (two-round threshold
\* Schnorr signing, hashes H1..H5 being Keccak-256 under a domain tag).

\* What the random generator can give as a nonce: non-zero scalars (a zero
\* nonce has probability 2^-256).
NonceValues == 1 .. MaxNonce

NonceDraws == NonceValues \X NonceValues

\* H1 (rho), H2 (chal), H4 (msg), H5 (com): tags 1, 2, 4, 5.
FrostHash(tag, data) == keccak256(<<tag>> \o data)

\* The keys of a BTreeMap, in its iteration order.
RECURSIVE SortedIds(_)
SortedIds(S) ==
    IF S = {} THEN <<>>
    ELSE LET m == CHOOSE x \in S : \A y \in S : x <= y
         IN  <<m>> \o SortedIds(S \ {m})

\* round1::commit: the nonces (hiding, binding) and their commitments.
round1_commit(signing_share, draw) ==
    [nonces |-> [hiding |-> draw[1], binding |-> draw[2]],
     commitments |-> [hiding |-> PMul(GENERATOR, draw[1]),
                      binding |-> PMul(GENERATOR, draw[2])]]

\* SigningPackage::new
SigningPackageNew(commits_map, msg) ==
    [signing_commitments |-> commits_map, message |-> msg]

RECURSIVE EncodeCommitments(_, _, _)
EncodeCommitments(commits, ids, k) ==
    IF k > Len(ids) THEN <<>>
    ELSE <<ids[k]>> \o point_bytes_compressed(commits[ids[k]].hiding)
                    \o point_bytes_compressed(commits[ids[k]].binding)
                    \o EncodeCommitments(commits, ids, k + 1)

\* The binding factors rho_i of all signers of a package.
compute_binding_factor_list(pkg, vk) ==
    LET commits == pkg.signing_commitments
        prefix  == point_bytes_compressed(vk)
                       \o <<FrostHash(4, pkg.message)>>
                       \o <<FrostHash(5, EncodeCommitments(
                                commits, SortedIds(DOMAIN commits), 1))>>
    IN  [id \in DOMAIN commits |-> reduce_bytes(FrostHash(1, prefix \o <<id>>))]

RECURSIVE GroupCommitmentLoop(_, _, _, _, _)
GroupCommitmentLoop(commits, rhos, ids, k, acc) ==
    IF k > Len(ids) THEN acc
    ELSE GroupCommitmentLoop(commits, rhos, ids, k + 1,
             PAdd(acc, PAdd(commits[ids[k]].hiding,
                            PMul(commits[ids[k]].binding, rhos[ids[k]]))))

\* R = sum of D_i + rho_i * E_i; Err on a commitment that is the identity.
compute_group_commitment(pkg, rhos) ==
    LET commits == pkg.signing_commitments
    IN  IF \E id \in DOMAIN commits :
               commits[id].hiding = IDENTITY \/ commits[id].binding = IDENTITY
        THEN [ok |-> FALSE, val |-> IDENTITY]
        ELSE [ok |-> TRUE,
              val |-> GroupCommitmentLoop(commits, rhos,
                          SortedIds(DOMAIN commits), 1, IDENTITY)]

\* c = H2(R || PK || m)
frost_challenge(Rc, vk, msg) ==
    reduce_bytes(FrostHash(2, point_bytes_compressed(Rc)
                                  \o point_bytes_compressed(vk) \o msg))

RECURSIVE InterpolatingLoop(_, _, _, _, _)
InterpolatingLoop(id, ids, k, num, den) ==
    IF k > Len(ids) THEN [num |-> num, den |-> den]
    ELSE IF ids[k] = id THEN InterpolatingLoop(id, ids, k + 1, num, den)
    ELSE InterpolatingLoop(id, ids, k + 1, SMul(num, ids[k]),
                           SMul(den, SSub(ids[k], id)))

\* lambda_i over the signers of the package (identifiers are distinct
\* non-zero scalars, so the denominator has an inverse).
derive_interpolating_value(id, pkg) ==
    LET nd == InterpolatingLoop(id, SortedIds(DOMAIN pkg.signing_commitments),
                                1, ScalarONE, ScalarONE)
    IN  SMul(nd.num, SInvert(nd.den).val)

\* round2::sign: z_i = d_i + e_i * rho_i + lambda_i * s_i * c; Err when the
\* package has fewer commitments than the key package's min_signers.
round2_sign(pkg, nonces, kp) ==
    IF Cardinality(DOMAIN pkg.signing_commitments) < kp.min_signers
    THEN [ok |-> FALSE, share |-> ScalarZERO]
    ELSE LET rhos == compute_binding_factor_list(pkg, kp.verifying_key)
             gc   == compute_group_commitment(pkg, rhos)
         IN  IF ~gc.ok THEN [ok |-> FALSE, share |-> ScalarZERO]
             ELSE [ok |-> TRUE,
                   share |->
                       SAdd(SAdd(nonces.hiding,
                                 SMul(nonces.binding, rhos[kp.identifier])),
                            SMul(SMul(derive_interpolating_value(kp.identifier, pkg),
                                      kp.signing_share),
                                 frost_challenge(gc.val, kp.verifying_key,
                                                 pkg.message)))]

\* VerifyingKey::verify: G * z = R + PK * c.
verify_signature(vk, msg, sig) ==
    PMul(GENERATOR, sig.z) = PAdd(sig.R, PMul(vk, frost_challenge(sig.R, vk, msg)))

\* A BTreeMap of signature shares is the list of its entries <<id, share>>
\* in key order.
RECURSIVE SumShares(_, _, _)
SumShares(sig_shares, k, acc) ==
    IF k > Len(sig_shares) THEN acc
    ELSE SumShares(sig_shares, k + 1, SAdd(acc, sig_shares[k][2]))

\* aggregate: (R, z = sum of z_i), returned only if it verifies under the
\* group key.
frost_aggregate(pkg, sig_shares, pubkeys) ==
    LET signers == {sig_shares[k][1] : k \in DOMAIN sig_shares}
    IN  IF signers # DOMAIN pkg.signing_commitments
           \/ ~(signers \subseteq DOMAIN pubkeys.verifying_shares)
        THEN [ok |-> FALSE, sig |-> NoSignature.sig]
        ELSE LET rhos == compute_binding_factor_list(pkg, pubkeys.verifying_key)
                 gc   == compute_group_commitment(pkg, rhos)
                 sig  == [R |-> gc.val, z |-> SumShares(sig_shares, 1, ScalarZERO)]
             IN  IF gc.ok /\ verify_signature(pubkeys.verifying_key, pkg.message, sig)
                 THEN [ok |-> TRUE, sig |-> sig]
                 ELSE [ok |-> FALSE, sig |-> NoSignature.sig]

\* The nonces and commitments the maps hold after the round-1 loop: an
\* identifier listed twice keeps what its last round drew.
LastPlace(signer_ids, id) ==
    CHOOSE k \in DOMAIN signer_ids :
        /\ signer_ids[k] = id
        /\ \A k2 \in DOMAIN signer_ids : signer_ids[k2] = id => k2 <= k

\* The round-2 loop over the nonce map, in key order: the first Err of
\* round2::sign is returned ("?"), otherwise the share is inserted.
RECURSIVE Round2Loop(_, _, _, _, _, _)
Round2Loop(signing_pkg, nonces_map, out, ids, k, sig_shares) ==
    IF k > Len(ids) THEN [ok |-> TRUE, shares |-> sig_shares]
    ELSE LET sig_share == round2_sign(signing_pkg, nonces_map[ids[k]],
                                      out.key_packages[ids[k]])
         IN  IF ~sig_share.ok THEN [ok |-> FALSE, shares |-> <<>>]
             ELSE Round2Loop(signing_pkg, nonces_map, out, ids, k + 1,
                             Append(sig_shares, <<ids[k], sig_share.share>>))

\* The signing package is made over the empty message.
frost_sign_empty_message(msg, out, signer_ids, draws) ==
    IF \E k \in DOMAIN signer_ids : signer_ids[k] \notin DOMAIN out.key_packages
    THEN [kind |-> "panic", sig |-> NoSignature.sig]
    ELSE LET ids == {signer_ids[k] : k \in DOMAIN signer_ids}
             round1 == [id \in ids |->
                           round1_commit(out.key_packages[id].signing_share,
                                         draws[LastPlace(signer_ids, id)])]
             nonces_map  == [id \in ids |-> round1[id].nonces]
             commits_map == [id \in ids |-> round1[id].commitments]
             signing_pkg == SigningPackageNew(commits_map, <<>>)
             round2 == Round2Loop(signing_pkg, nonces_map, out,
                                  SortedIds(ids), 1, <<>>)
         IN  IF ~round2.ok
             THEN [kind |-> "err", sig |-> NoSignature.sig]
             ELSE LET group_sig == frost_aggregate(signing_pkg, round2.shares,
                                                   out.public_key_package)
                  IN  IF group_sig.ok
                      THEN [kind |-> "ok", sig |-> group_sig.sig]
                      ELSE [kind |-> "err", sig |-> NoSignature.sig]

\* frost_sign: round 1 for every listed signer, one signing package, round 2
\* for every signer of the nonce map, aggregation.  draws[k] is what the
\* generator gives in the k-th round of the first loop.
frost_sign(msg, out, signer_ids, draws) ==
    IF \E k \in DOMAIN signer_ids : signer_ids[k] \notin DOMAIN out.key_packages
    THEN [kind |-> "panic", sig |-> NoSignature.sig]
    ELSE LET ids == {signer_ids[k] : k \in DOMAIN signer_ids}
             round1 == [id \in ids |->
                           round1_commit(out.key_packages[id].signing_share,
                                         draws[LastPlace(signer_ids, id)])]
             nonces_map  == [id \in ids |-> round1[id].nonces]
             commits_map == [id \in ids |-> round1[id].commitments]
             signing_pkg == SigningPackageNew(commits_map, msg)
             round2 == Round2Loop(signing_pkg, nonces_map, out,
                                  SortedIds(ids), 1, <<>>)
         IN  IF ~round2.ok
             THEN [kind |-> "err", sig |-> NoSignature.sig]
             ELSE LET group_sig == frost_aggregate(signing_pkg, round2.shares,
                                                   out.public_key_package)
                  IN  IF group_sig.ok
                      THEN [kind |-> "ok", sig |-> group_sig.sig]
                      ELSE [kind |-> "err", sig |-> NoSignature.sig]

\* frost_verify: Ok(true) iff the signature verifies under the group key.
frost_verify(msg, sig, out) ==
    verify_signature(out.public_key_package.verifying_key, msg, sig)

FrostSign(msg, signer_ids, draws) ==
    /\ dkgOut.ready
    /\ frPc = "idle"
    /\ frPc' = "signed"
    /\ frArgs' = [msg |-> msg, signer_ids |-> signer_ids]
    /\ frRes' = frost_sign(msg, dkgOut, signer_ids, draws)
    /\ UNCHANGED <<lgVars, nzVars, plVars, frVerMsg, frOk>>

FrostVerify(msg) ==
    /\ frPc = "signed"
    /\ frRes.kind = "ok"
    /\ frPc' = "verified"
    /\ frVerMsg' = msg
    /\ frOk' = frost_verify(msg, frRes.sig, dkgOut)
    /\ UNCHANGED <<lgVars, nzVars, plVars, frArgs, frRes>>

\* The draws of a call: one per round of the first loop; a call that panics
\* returns nothing, whatever was drawn before.
DrawsOf(signer_ids) ==
    IF \A k \in DOMAIN signer_ids : signer_ids[k] \in DOMAIN dkgOut.key_packages
    THEN [DOMAIN signer_ids -> NonceDraws]
    ELSE {[k \in DOMAIN signer_ids |-> <<1, 1>>]}

IsIncreasing(s) == \A a, b \in DOMAIN s : a < b => s[a] < s[b]

\* The lists given to frost_sign: identifiers in key order, as slices of
\* all_ids() are, and every list of two identifiers (in either order, or
\* one identifier twice).
FrostSignerLists ==
    {s \in SeqsUpTo(Identifiers, MaxSigners) : IsIncreasing(s)}
        \cup [1 .. 2 -> Identifiers]

NextFrost ==
    \/ /\ cfgRes.kind = "none"
       /\ \E max_signers \in U16Values : \E min_signers \in U16Values :
              NewConfig(max_signers, min_signers)
    \/ /\ cfgRes.kind = "ok" /\ ~dkgOut.ready
       /\ \E f \in SeqsUpTo(Scalars, MaxSigners) : RunDkg(f)
    \/ /\ dkgOut.ready /\ frPc = "idle"
       /\ \E msg \in Messages : \E signer_ids \in FrostSignerLists :
              \E draws \in DrawsOf(signer_ids) : FrostSign(msg, signer_ids, draws)
    \/ /\ frPc = "signed"
       /\ \E msg \in Messages : FrostVerify(msg)

SpecFrost == Init /\ [][NextFrost]_vars

\* ------------------------------------------------------------- properties

Participants == DOMAIN dkgOut.key_packages

Threshold == cfgRes.min_signers

\* sk = f(0), the secret no party holds.
GroupSecret == PolyEval(dkgOut.poly, 0)

AllParticipants(signers) == \A k \in DOMAIN signers : signers[k] \in Participants

Qualified(signers) ==
    /\ IsInjective(signers)
    /\ AllParticipants(signers)
    /\ Len(signers) >= Threshold

IndexPermutations(n) == {p \in [1 .. n -> 1 .. n] : IsInjective(p)}

Permuted(s, p) == [k \in 1 .. Len(s) |-> s[p[k]]]

DistinctNonZero(points) ==
    /\ \A k \in DOMAIN points : points[k][1] # 0
    /\ \A a, b \in DOMAIN points : points[a][1] = points[b][1] => a = b

\* C1: for every message and every list of at least t distinct participants
\* of the DKG output, run_ddh_dvrf_once returns, and returns V = sk * H(m);
\* so V is the same for any two such lists.
C1_SubsetIndependence ==
    (dvPc \in {"done", "panic"} /\ Qualified(dvArgs.signers))
        => /\ dvPc = "done"
           /\ dvV = PMul(hash_to_curve_point_keccak(dvArgs.msg), GroupSecret)

C1_Witness ==
    /\ dvPc = "done"
    /\ cfgRes.max_signers = 3 /\ cfgRes.min_signers = 2
    /\ dvArgs.signers = <<2, 3>>
    /\ dkgOut.poly[2] # 0
    /\ dvV # IDENTITY
    /\ dvV = PMul(hash_to_curve_point_keccak(dvArgs.msg), GroupSecret)

\* C2: for a polynomial f of degree below t and at least t entries
\* (i, G * f(i)) with distinct non-zero indices, lagrange_combine_points
\* returns G * f(0).
C2_LagrangeInExponent ==
    (lgState = "done" /\ lgPoly # <<>> /\ Len(lgPoints) >= Len(lgPoly))
        => /\ ~lgRes.panic
           /\ lgRes.val = PMul(GENERATOR, PolyEval(lgPoly, 0))

C2_Witness ==
    /\ lgState = "done"
    /\ lgPoly = <<2, 3>>
    /\ Len(lgPoints) = 3
    /\ \A k \in 1 .. 3 : lgPoints[k][1] = k
    /\ lgRes = [panic |-> FALSE, val |-> 2]

\* C3: the proof prove_eq returns for a key pair vk_i = G * sk_i is accepted
\* by verify_eq, for every message, secret and nonce.
C3_Completeness ==
    (nzState = "done" /\ nzIn.vk = PMul(GENERATOR, nzIn.sk)) => nzOk

C3_Witness ==
    /\ nzState = "done"
    /\ nzIn.vk = PMul(GENERATOR, nzIn.sk)
    /\ nzIn.sk # 0 /\ nzIn.r # 0
    /\ nzOut.v # IDENTITY
    /\ nzOut.proof.ch # 0
    /\ nzOk

\* C5: for every message and every list of at least t distinct participants
\* of the DKG output, frost_sign returns a signature, and a signature that
\* frost_sign returned is accepted by frost_verify for the same message and
\* the same DKG output.
C5_FrostCrossUse ==
    /\ (frPc # "idle" /\ Qualified(frArgs.signer_ids)) => frRes.kind = "ok"
    /\ (frPc = "verified" /\ frVerMsg = frArgs.msg) => frOk

\* A signature of three signers over a non-zero group secret was verified.
C5_Witness ==
    /\ frPc = "verified"
    /\ frVerMsg = frArgs.msg
    /\ Qualified(frArgs.signer_ids)
    /\ Len(frArgs.signer_ids) = MaxSigners
    /\ GroupSecret # 0
    /\ frRes.sig.R # IDENTITY
    /\ frOk

\* C6 as claimed: run_ddh_dvrf_once returns a V only for a list of at least
\* t signers, all of them participants.
C6_ValidatesSubset ==
    dvPc = "done"
        => Len(dvArgs.signers) >= Threshold /\ AllParticipants(dvArgs.signers)

\* C6 as the code has it: the round fails, returning no V, exactly when its
\* loop comes to an identifier without a key package; the length of the list
\* is not compared to t, and a list of participants gets its V.
C6_FailsOnlyOnMissingKey ==
    /\ dvPc = "done" => AllParticipants(dvArgs.signers)
    /\ dvPc = "panic"
           => /\ dvErr = "id has KeyPackage"
              /\ dvArgs.signers[dvK + 1] \notin Participants
    /\ (dvPc = "loop" /\ dvK = Len(dvArgs.signers))
           => ~lagrange_combine_points(good_points).panic

C6_Witness ==
    /\ dvPc = "done"
    /\ Len(dvArgs.signers) = Threshold - 1
    /\ IsInjective(dvArgs.signers)
    /\ dvV # IDENTITY

\* C7: DkgConfig::new succeeds, with a config of exactly the two values, if
\* and only if 2 <= min_signers <= max_signers; otherwise it is an error.
C7_ConfigIff ==
    cfgRes.kind # "none"
        => /\ cfgRes.kind \in {"ok", "err"}
           /\ cfgRes.kind = "ok" <=> (2 <= cfgIn[2] /\ cfgIn[2] <= cfgIn[1])
           /\ cfgRes.kind = "ok"
                  => cfgRes.max_signers = cfgIn[1] /\ cfgRes.min_signers = cfgIn[2]

C7_Witness ==
    /\ cfgRes.kind = "ok"
    /\ cfgIn[1] = cfgIn[2]
    /\ cfgRes.min_signers = cfgRes.max_signers
    /\ cfgRes.max_signers >= 2

\* C8: a second run on the same message, signers and key material, with
\* other nonces, returns the same V and the same per-signer v_i.
C8_DeterminismUpToNonce ==
    dvPrev.set
        => /\ dvPc # "panic"
           /\ dvPc = "done"
                  => /\ dvV = dvPrev.V
                     /\ exported_points_for_debug = dvPrev.points

C8_Witness ==
    /\ dvPrev.set
    /\ dvPc = "done"
    /\ Len(dvArgs.signers) >= 2
    /\ dvV # IDENTITY
    /\ dvV = dvPrev.V

\* C9: for entries with distinct non-zero indices, lagrange_combine_points
\* returns the same point for every permutation of the list.
C9_OrderIndependence ==
    (lgState = "done" /\ DistinctNonZero(lgPoints))
        => \A p \in IndexPermutations(Len(lgPoints)) :
               lagrange_combine_points(Permuted(lgPoints, p)) = lgRes

C9_Witness ==
    /\ lgState = "done"
    /\ lgPoly = <<>>
    /\ Len(lgPoints) = 3
    /\ DistinctNonZero(lgPoints)
    /\ lgPoints[1][1] > lgPoints[2][1]
    /\ lgPoints[1][2] # lgPoints[2][2] /\ lgPoints[2][2] # lgPoints[3][2]
    /\ lgRes.val # IDENTITY

\* C10 as claimed: whenever two entries carry indices that are equal modulo
\* r, the combiner signals an error and returns no point.
C10_CollisionSignalled ==
    (lgState = "done"
     /\ \E a, b \in DOMAIN lgPoints :
            a # b /\ lgPoints[a][1] % R = lgPoints[b][1] % R)
        => lgRes.panic

\* The coefficient of x^(t-1) of the polynomial the DKG shares.
LeadingCoefficient == dkgOut.poly[Threshold]

\* A round of exactly t - 1 distinct participants has returned its V.
BelowThresholdDone ==
    /\ dvPc = "done"
    /\ Len(dvArgs.signers) = Threshold - 1
    /\ IsInjective(dvArgs.signers)
    /\ AllParticipants(dvArgs.signers)

\* C11 as claimed, taken only for messages whose H(m) is not the identity:
\* for every DKG output and every list of exactly t - 1 distinct
\* participants, the V of the round is different from sk * H(m).
C11_BelowThresholdDiffers ==
    (BelowThresholdDone /\ hash_to_curve_point_keccak(dvArgs.msg) # IDENTITY)
        => dvV # PMul(hash_to_curve_point_keccak(dvArgs.msg), GroupSecret)

\* C11 as the code has it: for a list of exactly t - 1 distinct
\* participants the V of the round is different from sk * H(m) if and only
\* if H(m) is not the identity and the shared polynomial has degree t - 1
\* (its leading coefficient is not zero); a DKG output whose polynomial has
\* a lower degree gives V = sk * H(m) already from t - 1 signers.
C11_DiffersIffFullDegree ==
    BelowThresholdDone
        => ((dvV # PMul(hash_to_curve_point_keccak(dvArgs.msg), GroupSecret))
                <=> (/\ hash_to_curve_point_keccak(dvArgs.msg) # IDENTITY
                     /\ LeadingCoefficient # 0))

\* Two of three required signers, a polynomial of full degree, a message
\* with H(m) not the identity: V is returned and is not sk * H(m).
C11_Witness ==
    /\ BelowThresholdDone
    /\ Threshold = MaxSigners
    /\ LeadingCoefficient # 0
    /\ GroupSecret # 0
    /\ hash_to_curve_point_keccak(dvArgs.msg) # IDENTITY
    /\ dvV # PMul(hash_to_curve_point_keccak(dvArgs.msg), GroupSecret)

====
